---- MODULE Spec2Model ----
(***************************************************************************)
(* State-machine model of the WeeWX MQTT driver (bin/user/mqtt_driver.py): *)
(* the loader and constructor, the three broker callbacks run by the      *)
(* network loop, the polling generator genLoopPackets, the parser         *)
(* _parse_data with its duplicate memory, and closePort.                  *)
(*                                                                         *)
(* Conventions.  Text is a sequence of one-character strings.  A JSON     *)
(* value is a record [t, v]: t its JSON type, v its text.  Python None    *)
(* and JSON null are the same value.  Time runs in whole seconds; the     *)
(* timestamp text of a message is the seconds field of the driver's       *)
(* "%Y-%m-%d %H:%M:%S" format, the date, hour and minute being the same   *)
(* for every message and for the wall clock and therefore left out.       *)
(* A number (a Python float or int) is a record [m, e] that stands for    *)
(* m / 10^e, kept with no trailing zero in m when e > 0.                  *)
(***************************************************************************)
EXTENDS Integers, Sequences, FiniteSets, TLC

(* ------------------------------ bounds --------------------------------- *)

\* wall-clock second at which the model starts
StartClock == 20

\* last wall-clock second the model lets the clock reach
MaxClock == 31

\* seconds by which one step of the clock may advance it
TickSteps == {5, 6}

\* number of messages the broker delivers in one run
MaxMsgs == 3

\* number of connect callbacks in one run
MaxConnects == 2

\* number of closePort calls in one run
MaxClose == 2

\* number of payloads waiting in the queue when a run of the consumer starts
MaxQueue == 2

(* ------------------------- program constants --------------------------- *)

\* timedelta(seconds=10) of the prune step
Window == 10

\* weewx.US, the unit-system tag of every record
US == 1

(* ------------------------------- text ---------------------------------- *)

Digits == <<"0", "1", "2", "3", "4", "5", "6", "7", "8", "9">>

IsDigit(c) == \E i \in 1..10 : Digits[i] = c

DigitVal(c) == (CHOOSE i \in 1..10 : Digits[i] = c) - 1

AllDigits(s) == \A i \in 1..Len(s) : IsDigit(s[i])

RECURSIVE NatOf(_)
\* value of a text of decimal digits (0 for the empty text)
NatOf(s) ==
    IF s = <<>> THEN 0
    ELSE 10 * NatOf(SubSeq(s, 1, Len(s) - 1)) + DigitVal(s[Len(s)])

RECURSIVE Normal(_)
\* the same number with no trailing zero among its decimals
Normal(x) ==
    IF x.e > 0 /\ x.m % 10 = 0 THEN Normal([m |-> x.m \div 10, e |-> x.e - 1])
    ELSE x

Num(m, e) == Normal([m |-> m, e |-> e])

(* ---------------------------- JSON values ------------------------------ *)

Str(s) == [t |-> "str", v |-> s]

JNum(s) == [t |-> "num", v |-> s]

JBool(b) == [t |-> "bool", v |-> IF b THEN <<"1">> ELSE <<"0">>]

JList == [t |-> "list", v |-> <<>>]

None == [t |-> "null", v |-> <<>>]

\* result of an expression that may raise: exc = "none" and the value, or
\* the class of the exception raised
Ok(x) == [exc |-> "none", val |-> x]

Raise(cls) == [exc |-> cls, val |-> Num(0, 0)]

\* Python truth value of a JSON value (None, "", 0, False and [] are false)
Truth(x) ==
    CASE x.t = "null" -> FALSE
      [] x.t = "str"  -> x.v # <<>>
      [] x.t = "bool" -> x.v = <<"1">>
      [] x.t = "list" -> FALSE
      [] OTHER        -> \E i \in 1..Len(x.v) : IsDigit(x.v[i]) /\ x.v[i] # "0"

\* position of the first "." of a text, 0 if it has none
DotAt(s) ==
    IF \E i \in 1..Len(s) : s[i] = "."
    THEN CHOOSE i \in 1..Len(s) : s[i] = "." /\ \A j \in 1..(i - 1) : s[j] # "."
    ELSE 0

\* a conversion that reads the digits before the point only
FromDigitsTruncating(ip, fp) ==
    IF AllDigits(ip) /\ AllDigits(fp) /\ Len(ip) + Len(fp) > 0
    THEN Ok(Num(NatOf(ip), 0))
    ELSE Raise("ValueError")

\* the number written by the digits ip before and fp after the point;
\* ValueError unless both are digits only and there is at least one digit
FromDigits(ip, fp) ==
    IF AllDigits(ip) /\ AllDigits(fp) /\ Len(ip) + Len(fp) > 0
    THEN Ok(Num(NatOf(ip \o fp), Len(fp)))
    ELSE Raise("ValueError")

\* float() of a text without sign whose first "." is at position d (0: none)
Unsigned(body, d) ==
    IF d = 0 THEN FromDigits(body, <<>>)
    ELSE FromDigits(SubSeq(body, 1, d - 1), SubSeq(body, d + 1, Len(body)))

\* the negative of a float() result
Negated(r) == IF r.exc = "none" THEN Ok(Num(0 - r.val.m, r.val.e)) ELSE r

\* float() of a text: an optional sign, digits, an optional "." and digits,
\* with at least one digit; any other text raises ValueError
FloatOfText(s) ==
    IF s # <<>> /\ s[1] = "-"
    THEN Negated(Unsigned(Tail(s), DotAt(Tail(s))))
    ELSE Unsigned(s, DotAt(s))

\* float(x) of a decoded JSON value
Float(x) ==
    CASE x.t = "str"  -> FloatOfText(x.v)
      [] x.t = "num"  -> FloatOfText(x.v)
      [] x.t = "bool" -> Ok(Num(NatOf(x.v), 0))
      [] OTHER        -> Raise("TypeError")

\* datetime.strptime(x, "%S"): one or two digits, below sixty
StrpTime(x) ==
    IF x.t # "str" THEN Raise("TypeError")
    ELSE IF Len(x.v) \in 1..2 /\ AllDigits(x.v) /\ NatOf(x.v) < 60
         THEN Ok(NatOf(x.v))
         ELSE Raise("ValueError")

\* whether a value can be a member of a set or a key of a dict
Hashable(x) == x.t # "list"

(* ----------------------------- dictionaries ---------------------------- *)

EmptyDict == [k \in {} |-> None]

DictGet(d, k, default) == IF k \in DOMAIN d THEN d[k] ELSE default

DictPut(d, k, x) == [j \in DOMAIN d \cup {k} |-> IF j = k THEN x ELSE d[j]]

\* the dict built from a set of <<key, value>> pairs with distinct keys
DictOf(pairs) ==
    [k \in {p[1] : p \in pairs} |-> (CHOOSE p \in pairs : p[1] = k)[2]]

(* ---------------------------- mapping table ---------------------------- *)

\* self.model_mappings as the loader hands it over: model name to the ordered
\* pairs <<output field, source key>>
ModelMappings ==
    DictOf({ << <<"X">>, << <<"temp", "temperature_F">>, <<"hum", "humidity">> >> >> })

\* "model in self.model_mappings"
InMappings(model) == model.t = "str" /\ model.v \in DOMAIN ModelMappings

(* ------------------------------ messages ------------------------------- *)

\* marks a key the message does not have
Absent == [t |-> "absent", v |-> <<>>]

\* the text of a message that decodes to a JSON object with these members
Obj(model, id, time, mtype, tempF, hum) ==
    [kind |-> "object",
     obj  |-> DictOf({p \in { <<"model", model>>, <<"id", id>>, <<"time", time>>,
                              <<"message_type", mtype>>,
                              <<"temperature_F", tempF>>, <<"humidity", hum>> }
                        : p[2] # Absent})]

\* a text that is not JSON
Malformed == [kind |-> "malformed", obj |-> EmptyDict]

\* a text that is JSON but not an object (a list, a number, a string)
NotObject == [kind |-> "scalar", obj |-> EmptyDict]

\* bytes that are not UTF-8
Undecodable == [kind |-> "bytes", obj |-> EmptyDict]

X == Str(<<"X">>)

Good(time, id) ==
    Obj(X, id, Str(time), Str(<<"a">>), Str(<<"7", "2", ".", "5">>), Str(<<"4", "1">>))

\* the payloads the broker may deliver
Payloads ==
    { Good(<<"0", "5">>, Str(<<"1">>)),          \* declared time long past
      Good(<<"2", "0">>, Str(<<"1">>)),          \* declared time = start of the run
      Good(<<"4", "5">>, Str(<<"1">>)),          \* declared time ahead of the clock
      Good(<<"2", "0">>, Str(<<"2">>)),          \* another device, same second
      Obj(X, Str(<<"3">>), Str(<<"2", "5">>), Str(<<"a">>),
          Str(<<"-", "0", ".", "5", "0">>), Str(<<"0", "7">>)),
                                                 \* a sign, zeros before and behind
      Obj(X, Str(<<"1">>), Str(<<"2", "1">>), Str(<<"a">>),
          None, Str(<<"4", "1">>)),              \* a mapped field is null
      Obj(X, Str(<<"1">>), Str(<<"2", "2">>), Str(<<"a">>),
          Str(<<"n", "/", "a">>), JNum(<<"4", "1", ".", "0">>)),
                                                 \* a mapped field is not a number
      Obj(X, Str(<<"1">>), Str(<<"2", "3">>), Str(<<"a">>),
          Str(<<"-">>), Str(<<".">>)),           \* no mapped field converts
      Obj(X, Absent, Str(<<"2", "4">>), Absent, Absent, JBool(TRUE)),
                                                 \* only model, time and one field
      Obj(Str(<<"Z">>), Str(<<"1">>), Str(<<"2", "0">>), Str(<<"a">>),
          Str(<<"7", "2", ".", "5">>), Absent),  \* model without mapping
      Obj(Absent, Str(<<"1">>), Absent, Str(<<"a">>),
          Str(<<"7", "2", ".", "5">>), Absent),  \* neither model nor time
      Obj(X, Str(<<"1">>), Str(<<"n", "o", "w">>), Str(<<"a">>),
          Str(<<"7", "2", ".", "5">>), Absent),  \* time not in the format
      Obj(X, JList, Str(<<"2", "0">>), Str(<<"a">>),
          Str(<<"7", "2", ".", "5">>), Absent),  \* id is a list
      Malformed,
      NotObject }

\* what the broker delivers in the runs of the whole driver: bytes that do
\* not decode, a text that is not JSON, and one reading (sent again, it is a
\* duplicate)
WireMsgs == {Undecodable, Malformed, Good(<<"2", "0">>, Str(<<"1">>))}

(* ------------------------------ _parse_data ---------------------------- *)

\* outcome of the body of _parse_data: the exception raised (or "none"), the
\* value returned (some = FALSE for None), the lines logged, and the
\* duplicate memory as the call leaves it
Outcome(exc, some, val, log, seen, stamps) ==
    [exc |-> exc, some |-> some, val |-> val, log |-> log,
     seen |-> seen, stamps |-> stamps]

\* json.loads(data)
JsonLoads(data) ==
    IF data.kind = "malformed" THEN Raise("ValueError") ELSE Ok(data)

\* json_data.get(key): only an object has the method
JsonGet(json_data, key) ==
    IF json_data.kind # "object" THEN Raise("AttributeError")
    ELSE Ok(DictGet(json_data.obj, key, None))

\* "not model or model not in self.model_mappings"
NoMapping(model) ==
    IF ~Truth(model) THEN Ok(TRUE)
    ELSE IF ~Hashable(model) THEN Raise("TypeError")
    ELSE Ok(~InMappings(model))

\* a prune that keeps a member recorded at the cutoff itself
PruneInclusive(seen, stamps, current_time, cutoff_time) ==
    {pkt \in seen : DictGet(stamps, pkt, current_time) >= cutoff_time}

\* a prune that evicts one of the members it should evict
PruneOne(seen, stamps, current_time, cutoff_time) ==
    IF \A pkt \in seen : DictGet(stamps, pkt, current_time) > cutoff_time
    THEN seen
    ELSE seen \ {CHOOSE pkt \in seen :
                    ~(DictGet(stamps, pkt, current_time) > cutoff_time)}

\* the set comprehension of the prune step: the members whose recorded time
\* (current_time where none is recorded) is later than the cutoff
Prune(seen, stamps, current_time, cutoff_time) ==
    {pkt \in seen : DictGet(stamps, pkt, current_time) > cutoff_time}

\* the packet before the mappings are applied
NewPacket(now) == DictOf({ <<"dateTime", Num(now, 0)>>, <<"usUnits", Num(US, 0)>> })

RECURSIVE ApplyMappings(_, _, _, _)
RECURSIVE Assign(_, _, _, _, _)
\* the loop over field_mappings.items(): pairs still to do, the decoded
\* object, the packet and the log so far
ApplyMappings(pairs, obj, packet, log) ==
    IF pairs = <<>> THEN [exc |-> "none", packet |-> packet, log |-> log]
    ELSE IF Head(pairs)[2] \notin DOMAIN obj
         THEN ApplyMappings(Tail(pairs), obj, packet, log)
         ELSE Assign(pairs, obj, packet, log, Float(obj[Head(pairs)[2]]))

\* the body of the loop for the first pair, value being float() of its
\* source value: assigned, or logged on ValueError; any other exception
\* leaves the loop
Assign(pairs, obj, packet, log, value) ==
    CASE value.exc = "none" ->
           ApplyMappings(Tail(pairs), obj, DictPut(packet, Head(pairs)[1], value.val), log)
      [] value.exc = "ValueError" ->
           ApplyMappings(Tail(pairs), obj, packet, Append(log, "error: converting field"))
      [] OTHER ->
           [exc |-> value.exc, packet |-> packet, log |-> log]

\* the try block ends by raising cls before it logs or returns anything
Failed(cls, seen, stamps) == Outcome(cls, FALSE, EmptyDict, <<>>, seen, stamps)

\* "return packet", or the exception that left the mapping loop
BuildPacket(mapped, seen, stamps) ==
    IF mapped.exc # "none"
    THEN Outcome(mapped.exc, FALSE, EmptyDict, mapped.log, seen, stamps)
    ELSE Outcome("none", TRUE, mapped.packet, mapped.log, seen, stamps)

\* the duplicate check on the pruned set, the insertion and the mapping
Deduplicate(data, model, packet_id, current_time, pruned, stamps, now) ==
    IF \E i \in 1..4 : ~Hashable(packet_id[i])
    THEN Failed("TypeError", pruned, stamps)
    ELSE IF packet_id \in pruned
         THEN Outcome("none", FALSE, EmptyDict, <<"debug: duplicate packet">>,
                      pruned, stamps)
         ELSE BuildPacket(ApplyMappings(ModelMappings[model.v], data.obj,
                                        NewPacket(now), <<>>),
                          pruned \cup {packet_id},
                          DictPut(stamps, packet_id, current_time))

\* strptime of the timestamp, then the model check, then the prune
CheckHeader(data, model, device_id, timestamp, message_type, seen, stamps, now) ==
    IF StrpTime(timestamp).exc # "none" THEN Failed(StrpTime(timestamp).exc, seen, stamps)
    ELSE IF NoMapping(model).exc # "none" THEN Failed(NoMapping(model).exc, seen, stamps)
    ELSE IF NoMapping(model).val
         THEN Outcome("none", FALSE, EmptyDict, <<"warning: no field mappings">>,
                      seen, stamps)
         ELSE Deduplicate(data, model, <<timestamp, model, device_id, message_type>>,
                          StrpTime(timestamp).val,
                          Prune(seen, stamps, StrpTime(timestamp).val, now - Window),
                          stamps, now)

\* the try block of _parse_data
ParseBody(data, seen, stamps, now) ==
    IF JsonLoads(data).exc # "none" THEN Failed(JsonLoads(data).exc, seen, stamps)
    ELSE IF JsonGet(data, "model").exc # "none"
         THEN Failed(JsonGet(data, "model").exc, seen, stamps)
         ELSE CheckHeader(data, JsonGet(data, "model").val, JsonGet(data, "id").val,
                          JsonGet(data, "time").val, JsonGet(data, "message_type").val,
                          seen, stamps, now)

\* a handler that catches ValueError only
CaughtValueErrorOnly(cls) == cls = "ValueError"

\* "except Exception": the classes the handler of _parse_data catches
Caught(cls) == TRUE

\* the except clause applied to the outcome of the try block
Handled(body) ==
    IF body.exc = "none" THEN body
    ELSE IF Caught(body.exc)
         THEN [body EXCEPT !.exc = "none", !.some = FALSE, !.val = EmptyDict,
                           !.log = Append(body.log, "error: parsing data")]
         ELSE body

\* _parse_data(data) run on the duplicate memory (seen, stamps) at wall-clock
\* second now; exc is the exception that leaves the call, if any
ParseData(data, seen, stamps, now) == Handled(ParseBody(data, seen, stamps, now))

\* "if packet:" in genLoopPackets
Truthy(ret) == ret.some /\ DOMAIN ret.val # {}

(* ------------------------------- state --------------------------------- *)

VARIABLES
    cfg,                \* the driver section of the configuration: host, topic, port
    reachable,          \* whether a TCP connection to the broker can be opened
    driver,             \* "unloaded", "config_error", "init_raised" or "constructed"
    connectCalls,       \* calls of client.connect so far
    loopStarts,         \* calls of client.loop_start so far
    loop_running,       \* whether the client's network thread runs
    session,            \* the MQTT session: "down" or "up"
    connects,           \* connect callbacks so far
    subscribes,         \* calls of client.subscribe so far
    stop_event,         \* self._stop_event
    queue,              \* self._queue, oldest first; each entry [n, data]
    last_seen_packets,  \* self.last_seen_packets
    packet_timestamps,  \* self.packet_timestamps
    now,                \* the wall clock
    gen,                \* the generator: "suspended", "check", "get", "ended", "raised"
    closer,             \* the context calling closePort: "idle" or "stopping"
    closeCalls,         \* closePort calls begun
    closeReturns,       \* closePort calls returned
    arrivals,           \* message callbacks so far; numbers the messages
    yielded,            \* the records handed to the host, oldest first, each [n, packet]
    last,               \* the latest call of _parse_data and what it returned
    acceptedAt,         \* packet identity -> wall-clock second of its latest acceptance
    pullAfterClose,     \* whether the pull in progress began after closePort returned
    inserted,           \* the packet identities any call of _parse_data has inserted
    net                 \* the latest callback run by the network thread

vars ==
    <<cfg, reachable, driver, connectCalls, loopStarts, loop_running, session,
      connects, subscribes, stop_event, queue, last_seen_packets,
      packet_timestamps, now, gen, closer, closeCalls, closeReturns, arrivals,
      yielded, last, acceptedAt, pullAfterClose, inserted, net>>

netVars == <<loop_running, session, connects, subscribes>>

loadVars == <<cfg, reachable, driver, connectCalls, loopStarts>>

dedupVars == <<last_seen_packets, packet_timestamps, last, acceptedAt, inserted>>

closeVars == <<closer, closeCalls, closeReturns>>

Presence == {"absent", "empty", "set"}

\* the identity tuple of a decoded object
PacketId(data) ==
    << DictGet(data.obj, "time", None), DictGet(data.obj, "model", None),
       DictGet(data.obj, "id", None), DictGet(data.obj, "message_type", None) >>

NoCall ==
    [n |-> 0, data |-> Malformed, at |-> 0, exc |-> "none", some |-> FALSE,
     val |-> EmptyDict, log |-> <<>>, prev |-> -1, closed |-> FALSE,
     known |-> FALSE]

\* a callback of the network thread: which one, the code a connect callback
\* carries, the message a message callback carries and its arrival number,
\* and the exception that left the callback
Callback(cb, rc, n, msg, exc) ==
    [cb |-> cb, rc |-> rc, n |-> n, msg |-> msg, exc |-> exc]

NoCallback == Callback("none", 0, 0, Undecodable, "none")

Init ==
    /\ cfg \in [host : Presence, topic : Presence, port : {"valid", "invalid"}]
    /\ reachable \in BOOLEAN
    /\ driver = "unloaded"
    /\ connectCalls = 0
    /\ loopStarts = 0
    /\ loop_running = FALSE
    /\ session = "down"
    /\ connects = 0
    /\ subscribes = 0
    /\ stop_event = FALSE
    /\ queue = <<>>
    /\ last_seen_packets = {}
    /\ packet_timestamps = EmptyDict
    /\ now = StartClock
    /\ gen = "suspended"
    /\ closer = "idle"
    /\ closeCalls = 0
    /\ closeReturns = 0
    /\ arrivals = 0
    /\ yielded = <<>>
    /\ last = NoCall
    /\ acceptedAt = EmptyDict
    /\ pullAfterClose = FALSE
    /\ inserted = {}
    /\ net = NoCallback

(* --------------------------- loader, __init__ -------------------------- *)

\* "not driver_config.get(key)": the key is absent or its value is empty
Missing(value) == value # "set"

\* loader(config_dict, _) and the constructor it calls
Loader ==
    /\ driver = "unloaded"
    /\ UNCHANGED <<cfg, reachable, connects, subscribes, session, stop_event, queue,
                   now, gen, yielded, pullAfterClose>>
    /\ UNCHANGED dedupVars
    /\ UNCHANGED closeVars
    /\ UNCHANGED <<arrivals, net>>
    /\ IF Missing(cfg.host) \/ Missing(cfg.topic)
       THEN \* raise ValueError, before the constructor is called
            /\ driver' = "config_error"
            /\ UNCHANGED <<connectCalls, loopStarts, loop_running>>
       ELSE IF cfg.port = "invalid"
       THEN \* int(stn_dict.get('port', 1883)) raises ValueError
            /\ driver' = "init_raised"
            /\ UNCHANGED <<connectCalls, loopStarts, loop_running>>
       ELSE IF ~reachable
       THEN \* client.connect opens the socket itself and raises OSError
            /\ driver' = "init_raised"
            /\ connectCalls' = connectCalls + 1
            /\ UNCHANGED <<loopStarts, loop_running>>
       ELSE /\ driver' = "constructed"
            /\ connectCalls' = connectCalls + 1
            /\ loopStarts' = loopStarts + 1
            /\ loop_running' = TRUE

(* --------------------------- network callbacks ------------------------- *)

\* a test that takes every code for success
SucceededAlways(rc) == TRUE

\* "if rc == 0"
Succeeded(rc) == rc = 0

\* _on_connect(client, userdata, flags, rc), run by the network thread
OnConnect(rc) ==
    /\ driver = "constructed"
    /\ loop_running
    /\ session = "down"
    /\ connects < MaxConnects
    /\ connects' = connects + 1
    /\ IF Succeeded(rc)
       THEN \* client.subscribe(self.topic, qos=self.qos)
            session' = "up" /\ subscribes' = subscribes + 1
       ELSE UNCHANGED <<session, subscribes>>
    /\ net' = Callback("connect", rc, 0, Undecodable, "none")
    /\ UNCHANGED <<loop_running, stop_event, queue, now, gen, arrivals, yielded,
                   pullAfterClose>>
    /\ UNCHANGED loadVars
    /\ UNCHANGED dedupVars
    /\ UNCHANGED closeVars

\* msg.payload.decode('utf-8')
Decode(msg) == IF msg.kind = "bytes" THEN Raise("UnicodeDecodeError") ELSE Ok(msg)

\* "except Exception" of _on_message: the classes its handler catches
CaughtInCallback(cls) == TRUE

\* a put that drops the payload when one is already waiting
QueuePutIfEmpty(q, item) == IF q = <<>> THEN Append(q, item) ELSE q

\* a put at the front of the queue
QueuePutFront(q, item) == <<item>> \o q

\* self._queue.put(payload)
QueuePut(q, item) == Append(q, item)

\* _on_message(client, userdata, msg), run by the network thread
OnMessage(msg) ==
    /\ driver = "constructed"
    /\ loop_running
    /\ session = "up"
    /\ subscribes > 0
    /\ arrivals < MaxMsgs
    /\ arrivals' = arrivals + 1
    /\ IF Decode(msg).exc = "none"
       THEN queue' = QueuePut(queue, [n |-> arrivals + 1, data |-> Decode(msg).val])
       ELSE \* the handler logs the error; nothing is put
            UNCHANGED queue
    /\ net' = Callback("message", 0, arrivals + 1, msg,
                       IF CaughtInCallback(Decode(msg).exc) THEN "none"
                       ELSE Decode(msg).exc)
    /\ UNCHANGED <<stop_event, now, gen, yielded, pullAfterClose>>
    /\ UNCHANGED netVars
    /\ UNCHANGED loadVars
    /\ UNCHANGED dedupVars
    /\ UNCHANGED closeVars

\* a disconnect callback that empties the queue
OnDisconnectClearing ==
    /\ driver = "constructed"
    /\ loop_running
    /\ session = "up"
    /\ session' = "down"
    /\ queue' = <<>>
    /\ net' = Callback("disconnect", 0, 0, Undecodable, "none")
    /\ UNCHANGED <<loop_running, connects, subscribes, stop_event, now, gen,
                   arrivals, yielded, pullAfterClose>>
    /\ UNCHANGED loadVars
    /\ UNCHANGED dedupVars
    /\ UNCHANGED closeVars

\* _on_disconnect(client, userdata, rc), run by the network thread
OnDisconnect ==
    /\ driver = "constructed"
    /\ loop_running
    /\ session = "up"
    /\ session' = "down"
    /\ net' = Callback("disconnect", 0, 0, Undecodable, "none")
    /\ UNCHANGED <<loop_running, connects, subscribes, stop_event, queue, now, gen,
                   arrivals, yielded, pullAfterClose>>
    /\ UNCHANGED loadVars
    /\ UNCHANGED dedupVars
    /\ UNCHANGED closeVars

(* ------------------------------ the clock ------------------------------ *)

\* the wall clock advances by d seconds
Tick(d) ==
    /\ driver = "constructed"
    /\ now + d <= MaxClock
    /\ now' = now + d
    /\ UNCHANGED <<stop_event, queue, gen, arrivals, yielded, pullAfterClose, net>>
    /\ UNCHANGED netVars
    /\ UNCHANGED loadVars
    /\ UNCHANGED dedupVars
    /\ UNCHANGED closeVars

(* ---------------------------- genLoopPackets --------------------------- *)

\* the host asks the generator for its next record
Pull ==
    /\ driver = "constructed"
    /\ gen = "suspended"
    /\ gen' = "check"
    /\ pullAfterClose' = (closeReturns > 0)
    /\ UNCHANGED <<stop_event, queue, now, arrivals, yielded, net>>
    /\ UNCHANGED netVars
    /\ UNCHANGED loadVars
    /\ UNCHANGED dedupVars
    /\ UNCHANGED closeVars

\* a test that never sees the event set
IsSetNever(flag) == FALSE

\* threading.Event.is_set()
IsSet(flag) == flag

\* "while not self._stop_event.is_set()"
LoopCheck ==
    /\ gen = "check"
    /\ gen' = IF IsSet(stop_event) THEN "ended" ELSE "get"
    /\ UNCHANGED <<stop_event, queue, now, arrivals, yielded, pullAfterClose, net>>
    /\ UNCHANGED netVars
    /\ UNCHANGED loadVars
    /\ UNCHANGED dedupVars
    /\ UNCHANGED closeVars

\* self._queue.get(timeout=...) finds nothing: queue.Empty, caught, next round
GetTimeout ==
    /\ gen = "get"
    /\ queue = <<>>
    /\ gen' = "check"
    /\ UNCHANGED <<stop_event, queue, now, arrivals, yielded, pullAfterClose, net>>
    /\ UNCHANGED netVars
    /\ UNCHANGED loadVars
    /\ UNCHANGED dedupVars
    /\ UNCHANGED closeVars

\* the entry self._queue.get hands out
QueueFront(q) == Head(q)

\* a get that takes the entry behind the front one along
QueueRestSkipping(q) == IF Len(q) > 1 THEN Tail(Tail(q)) ELSE Tail(q)

\* the queue once that entry is taken
QueueRest(q) == Tail(q)

\* self._queue.get returns a payload; it is parsed and, if a packet comes
\* back, yielded
GetMessage ==
    /\ gen = "get"
    /\ queue # <<>>
    /\ \E item \in {QueueFront(queue)} :
       \E r \in {ParseData(item.data, last_seen_packets, packet_timestamps, now)} :
           /\ queue' = QueueRest(queue)
           /\ last_seen_packets' = r.seen
           /\ packet_timestamps' = r.stamps
           /\ last' = [n |-> item.n, data |-> item.data, at |-> now, exc |-> r.exc,
                       some |-> r.some, val |-> r.val, log |-> r.log,
                       prev |-> DictGet(acceptedAt, PacketId(item.data), -1),
                       closed |-> closeReturns > 0,
                       known |-> PacketId(item.data) \in inserted]
           /\ inserted' = inserted \cup (r.seen \ last_seen_packets)
           /\ acceptedAt' = IF r.some THEN DictPut(acceptedAt, PacketId(item.data), now)
                            ELSE acceptedAt
           /\ IF r.exc # "none"
              THEN gen' = "raised" /\ UNCHANGED yielded
              ELSE IF Truthy(r)
              THEN /\ gen' = "suspended"
                   /\ yielded' = Append(yielded, [n |-> item.n, packet |-> r.val])
              ELSE gen' = "check" /\ UNCHANGED yielded
    /\ UNCHANGED <<stop_event, now, arrivals, pullAfterClose, net>>
    /\ UNCHANGED netVars
    /\ UNCHANGED loadVars
    /\ UNCHANGED closeVars

(* ------------------------------- closePort ----------------------------- *)

\* an event that flips instead of being set
EventToggle(flag) == ~flag

\* threading.Event.set()
EventSet(flag) == TRUE

\* closePort up to self._stop_event.set()
ClosePortSet ==
    /\ driver = "constructed"
    /\ closer = "idle"
    /\ closeCalls < MaxClose
    /\ closer' = "stopping"
    /\ closeCalls' = closeCalls + 1
    /\ stop_event' = EventSet(stop_event)
    /\ UNCHANGED <<closeReturns, queue, now, gen, arrivals, yielded, pullAfterClose,
                   net>>
    /\ UNCHANGED netVars
    /\ UNCHANGED loadVars
    /\ UNCHANGED dedupVars

\* the rest of closePort: client.loop_stop(), client.disconnect(), return
ClosePortReturn ==
    /\ closer = "stopping"
    /\ closer' = "idle"
    /\ closeReturns' = closeReturns + 1
    /\ loop_running' = FALSE
    /\ session' = "down"
    /\ UNCHANGED <<closeCalls, connects, subscribes, stop_event, queue, now, gen,
                   arrivals, yielded, pullAfterClose, net>>
    /\ UNCHANGED loadVars
    /\ UNCHANGED dedupVars

(* ---------------------------- specification ---------------------------- *)

Next ==
    \/ Loader
    \/ \E rc \in {0, 5} : OnConnect(rc)
    \/ \E msg \in WireMsgs : OnMessage(msg)
    \/ OnDisconnect
    \/ \E d \in TickSteps : Tick(d)
    \/ Pull
    \/ LoopCheck
    \/ GetTimeout
    \/ GetMessage
    \/ ClosePortSet
    \/ ClosePortReturn

Spec == Init /\ [][Next]_vars

(* ------------------- the consumer on a queue of payloads --------------- *)

RECURSIVE Numbered(_)
\* the payloads as queue entries, numbered in order of arrival
Numbered(datas) ==
    IF datas = <<>> THEN <<>>
    ELSE Append(Numbered(SubSeq(datas, 1, Len(datas) - 1)),
                [n |-> Len(datas), data |-> datas[Len(datas)]])

\* the driver loaded and connected, the payloads of some messages waiting in
\* the queue, nothing pulled yet
InitConsumer ==
    /\ cfg = [host |-> "set", topic |-> "set", port |-> "valid"]
    /\ reachable = TRUE
    /\ driver = "constructed"
    /\ connectCalls = 1
    /\ loopStarts = 1
    /\ loop_running = TRUE
    /\ session = "up"
    /\ connects = 1
    /\ subscribes = 1
    /\ stop_event = FALSE
    /\ \E k \in 0..MaxQueue : \E datas \in [1..k -> Payloads] :
          queue = Numbered(datas) /\ arrivals = k
    /\ last_seen_packets = {}
    /\ packet_timestamps = EmptyDict
    /\ now = StartClock
    /\ gen = "suspended"
    /\ closer = "idle"
    /\ closeCalls = 0
    /\ closeReturns = 0
    /\ yielded = <<>>
    /\ last = NoCall
    /\ acceptedAt = EmptyDict
    /\ pullAfterClose = FALSE
    /\ inserted = {}
    /\ net = IF queue = <<>> THEN Callback("connect", 0, 0, Undecodable, "none")
             ELSE Callback("message", 0, arrivals, queue[Len(queue)].data, "none")

NextConsumer ==
    \/ \E d \in TickSteps : Tick(d)
    \/ Pull
    \/ LoopCheck
    \/ GetTimeout
    \/ GetMessage

SpecConsumer == InitConsumer /\ [][NextConsumer]_vars

\* the driver loaded, its first connect callback run with success, nothing
\* received and nothing pulled yet
InitRunning ==
    /\ cfg = [host |-> "set", topic |-> "set", port |-> "valid"]
    /\ reachable = TRUE
    /\ driver = "constructed"
    /\ connectCalls = 1
    /\ loopStarts = 1
    /\ loop_running = TRUE
    /\ session = "up"
    /\ connects = 1
    /\ subscribes = 1
    /\ stop_event = FALSE
    /\ queue = <<>>
    /\ arrivals = 0
    /\ last_seen_packets = {}
    /\ packet_timestamps = EmptyDict
    /\ now = StartClock
    /\ gen = "suspended"
    /\ closer = "idle"
    /\ closeCalls = 0
    /\ closeReturns = 0
    /\ yielded = <<>>
    /\ last = NoCall
    /\ acceptedAt = EmptyDict
    /\ pullAfterClose = FALSE
    /\ inserted = {}
    /\ net = Callback("connect", 0, 0, Undecodable, "none")

\* the steps of the consumer: the host's next() and the generator's body
Consume ==
    \/ Pull
    \/ LoopCheck
    \/ GetTimeout
    \/ GetMessage

NextRunning ==
    \/ \E msg \in WireMsgs : OnMessage(msg)
    \/ Consume
    \/ ClosePortSet
    \/ ClosePortReturn

\* self._queue.get(timeout=...) with a message waiting returns the one at
\* the head: the step of GetMessage, told by what it does to the queue
GetReturns ==
    /\ gen = "get"
    /\ queue # <<>>
    /\ queue' = QueueRest(queue)

\* the host keeps pulling and the generator, once resumed, keeps running: its
\* loop check is evaluated and its wait on the queue returns, by the timeout
\* or with the message at the head
ConsumerRuns ==
    /\ WF_vars(Pull \/ LoopCheck \/ GetTimeout)
    /\ WF_queue(GetReturns)

SpecRunning == InitRunning /\ [][NextRunning]_vars /\ ConsumerRuns

(* ------------------- the prune step of _parse_data --------------------- *)

MaxPrunes == 2

\* messages whose identities the duplicate memory may hold
Remembered ==
    { Good(<<"0", "5">>, Str(<<"1">>)), Good(<<"2", "0">>, Str(<<"1">>)),
      Good(<<"2", "0">>, Str(<<"2">>)), Good(<<"4", "5">>, Str(<<"1">>)) }

\* the time _parse_data records for an identity: its declared timestamp
StampOf(packet_id) == StrpTime(packet_id[1]).val

\* the driver running with a duplicate memory as earlier calls can have left
\* it: every identity inserted has its time recorded, and the set holds some
\* of them
InitPrune ==
    /\ cfg = [host |-> "set", topic |-> "set", port |-> "valid"]
    /\ reachable = TRUE
    /\ driver = "constructed"
    /\ connectCalls = 1
    /\ loopStarts = 1
    /\ loop_running = TRUE
    /\ session = "up"
    /\ connects = 1
    /\ subscribes = 1
    /\ stop_event = FALSE
    /\ queue = <<>>
    /\ arrivals = 0
    /\ inserted \in SUBSET {PacketId(data) : data \in Remembered}
    /\ last_seen_packets \in SUBSET inserted
    /\ packet_timestamps = [pkt \in inserted |-> StampOf(pkt)]
    /\ now = StartClock
    /\ gen = "get"
    /\ closer = "idle"
    /\ closeCalls = 0
    /\ closeReturns = 0
    /\ yielded = <<>>
    /\ last = NoCall
    /\ acceptedAt = EmptyDict
    /\ pullAfterClose = FALSE
    /\ net = Callback("connect", 0, 0, Undecodable, "none")

\* the prune step of a call for a message that declares current_time:
\* "self.last_seen_packets = {pkt for pkt in self.last_seen_packets if ...}";
\* last counts the steps and keeps the wall-clock second of the latest
PruneStep(current_time) ==
    /\ last.n < MaxPrunes
    /\ last_seen_packets' =
          Prune(last_seen_packets, packet_timestamps, current_time, now - Window)
    /\ last' = [last EXCEPT !.n = last.n + 1, !.at = now]
    /\ UNCHANGED <<packet_timestamps, acceptedAt, inserted>>
    /\ UNCHANGED <<stop_event, queue, now, gen, arrivals, yielded, pullAfterClose, net>>
    /\ UNCHANGED netVars
    /\ UNCHANGED loadVars
    /\ UNCHANGED closeVars

NextPrune ==
    \/ \E d \in TickSteps : Tick(d)
    \/ \E data \in Remembered : PruneStep(StampOf(PacketId(data)))

SpecPrune == InitPrune /\ [][NextPrune]_vars

(* ------------------------ vocabulary of the claims --------------------- *)

\* _parse_data has been called
Called == last.n > 0

\* the message decodes to an object with a mapped model and a timestamp in
\* the format
ValidHeader(data) ==
    /\ data.kind = "object"
    /\ InMappings(DictGet(data.obj, "model", None))
    /\ StrpTime(DictGet(data.obj, "time", None)).exc = "none"

\* the parts of the identity can be hashed
HashableId(data) == \A i \in 1..4 : Hashable(PacketId(data)[i])

\* the source keys the mapping of model X names
SourceKeys == {"temperature_F", "humidity"}

\* the output field fed by a source key
FieldOf(key) == IF key = "temperature_F" THEN "temp" ELSE "hum"

\* the output fields whose source value is present and converts to a float
Converting(data) ==
    {FieldOf(key) : key \in {k \in SourceKeys \cap DOMAIN data.obj :
                                Float(data.obj[k]).exc = "none"}}

\* every mapped value the message carries converts
AllConvert(data) ==
    \A k \in SourceKeys \cap DOMAIN data.obj : Float(data.obj[k]).exc = "none"

\* the message numbers of a sequence of queue entries or of records
RECURSIVE Ns(_)
Ns(entries) ==
    IF entries = <<>> THEN <<>> ELSE <<Head(entries).n>> \o Ns(Tail(entries))

Increasing(ns) == \A i, j \in 1..Len(ns) : i < j => ns[i] < ns[j]

(* -------------------------------- claims ------------------------------- *)

\* C1: a message whose identity was accepted less than 10 seconds of wall
\* clock ago is rejected, whatever its declared timestamp.
C1_DuplicateInsideWindow ==
    (Called /\ ValidHeader(last.data) /\ last.prev >= 0
        /\ last.at - last.prev < Window)
    => ~last.some

\* C2: a message whose identity was last accepted more than 10 seconds of
\* wall clock ago is accepted again, whatever its declared timestamp.
C2_DuplicateMemoryExpires ==
    (Called /\ ValidHeader(last.data) /\ last.prev >= 0
        /\ last.at - last.prev > Window)
    => last.some

\* C3: once closePort has returned, the consumer takes nothing from the queue,
\* calls _parse_data no more and yields no record.
C3_NothingAfterStop ==
    [][closeReturns > 0 => (queue' = queue /\ last' = last /\ yielded' = yielded)]_vars

\* C4: the records yielded, followed by the messages still queued, carry
\* strictly increasing arrival numbers of messages that did arrive; and every
\* yield hands out one record, made from the entry at the head of the queue,
\* which it removes.
C4_Order ==
    /\ [](Increasing(Ns(yielded) \o Ns(queue))
          /\ \A i \in 1..Len(yielded) : yielded[i].n \in 1..arrivals)
    /\ [][yielded' # yielded =>
            /\ queue # <<>>
            /\ queue' = Tail(queue)
            /\ last'.n = Head(queue).n
            /\ last'.data = Head(queue).data
            /\ yielded' = Append(yielded, [n |-> Head(queue).n, packet |-> last'.val])]_vars

\* two records yielded out of three messages, the one between them rejected
C4_Witness ==
    /\ Len(yielded) = 2
    /\ yielded[1].n = 1
    /\ yielded[2].n = 3

\* C5: a message that passes the model, timestamp and duplicate checks gives
\* a record that holds exactly the mapped fields whose value converts, and
\* the record is yielded.
C5_FieldFailureKeepsMessage ==
    (Called /\ ValidHeader(last.data) /\ HashableId(last.data)
        /\ \A i \in 1..Len(last.log) : last.log[i] # "debug: duplicate packet")
    => /\ last.some
       /\ DOMAIN last.val = {"dateTime", "usUnits"} \cup Converting(last.data)
       /\ yielded # <<>>
       /\ yielded[Len(yielded)] = [n |-> last.n, packet |-> last.val]

\* C6: a decodable message whose model is absent or has no mapping gives no
\* record and is reported by the unknown-model warning, whatever its
\* timestamp.
C6_UnknownModelWarned ==
    (Called /\ last.data.kind = "object"
        /\ ~InMappings(DictGet(last.data.obj, "model", None)))
    => /\ ~last.some
       /\ last.log = <<"warning: no field mappings">>

\* C7: while the stop event is clear the generator neither raises nor ends;
\* no exception leaves _parse_data; a rejected message yields no record; a
\* timeout on the empty queue yields no record; and a valid message whose
\* identity was not accepted before is accepted.
C7_StreamNeverHalts ==
    /\ [](/\ gen # "raised"
          /\ (~stop_event => gen # "ended")
          /\ last.exc = "none"
          /\ (Called /\ ~last.some) =>
                (yielded = <<>> \/ yielded[Len(yielded)].n # last.n)
          /\ (Called /\ ValidHeader(last.data) /\ HashableId(last.data)
                /\ AllConvert(last.data) /\ last.prev < 0)
             => (last.some /\ yielded # <<>> /\ yielded[Len(yielded)].n = last.n))
    /\ [][(gen = "get" /\ queue = <<>>) => yielded' = yielded]_vars

\* the first message was rejected with an exception caught and logged, the
\* second was accepted and yielded
C7_Witness ==
    /\ last.n = 2
    /\ last.some
    /\ Ns(yielded) = <<2>>
    /\ gen = "suspended"
    /\ ~stop_event

\* C8: with host and topic configured the constructor completes, also when
\* the broker cannot be reached, and then leaves the session down; only a
\* missing host or topic makes construction fail.
C8_ConnectFailureNotThrown ==
    (driver # "unloaded" /\ ~Missing(cfg.host) /\ ~Missing(cfg.topic))
    => /\ driver = "constructed"
       /\ (~reachable => session = "down")

\* C9: with host or topic missing, loading ends in the configuration error
\* with no connect and no loop start; with both present, connect and loop
\* start are each called exactly once.
C9_FailFast ==
    driver # "unloaded"
    => IF Missing(cfg.host) \/ Missing(cfg.topic)
       THEN driver = "config_error" /\ connectCalls = 0 /\ loopStarts = 0
       ELSE connectCalls = 1 /\ loopStarts = 1

\* C10: the stop event is clear until closePort is called and is never
\* cleared again; a closePort after the first has returned changes nothing of
\* the driver; a pull begun after closePort has returned ends at the loop
\* check, yielding nothing and leaving the queue as it is.
C10_StoppedIsTerminal ==
    /\ [](closeCalls = 0 => ~stop_event)
    /\ [][stop_event => stop_event']_vars
    /\ [](closeReturns > 0 => (stop_event /\ ~loop_running /\ session = "down"))
    /\ [][(closeReturns > 0 /\ closeVars' # closeVars) =>
            UNCHANGED <<stop_event, loop_running, session, queue, gen, yielded,
                        last_seen_packets, packet_timestamps>>]_vars
    /\ [](pullAfterClose => gen \in {"check", "ended"})
    /\ [][pullAfterClose' => (queue' = queue /\ yielded' = yielded)]_vars

\* closePort has returned twice, a pull begun after it has ended, and the
\* message that was waiting is still in the queue
C10_Witness ==
    /\ closeReturns = 2
    /\ pullAfterClose
    /\ gen = "ended"
    /\ queue # <<>>

\* C11: with the host pulling, once the stop event is set the generator
\* ends; while the event is set the generator starts no wait on the queue,
\* so the one wait or dequeue that was in progress is the last, and outside
\* of it nothing is taken from the queue and nothing is parsed.
C11_StopEndsPolling ==
    /\ stop_event ~> (gen = "ended")
    /\ [][(stop_event /\ gen # "get") =>
            /\ gen' # "get"
            /\ Len(queue') >= Len(queue)
            /\ last' = last
            /\ yielded' = yielded]_vars
    /\ [][gen = "ended" => gen' = "ended"]_vars

\* the generator has ended with two messages left in the queue
C11_Witness ==
    /\ stop_event
    /\ gen = "ended"
    /\ Len(queue) >= 2

\* C12: a message callback whose payload decodes appends that payload, once,
\* at the tail of the queue, however many are waiting; one whose payload does
\* not decode leaves the queue as it is; no exception leaves the callback;
\* and nothing but a message callback adds to the queue.
C12_BridgeEnqueues ==
    /\ [][arrivals' # arrivals =>
            /\ net'.cb = "message"
            /\ net'.n = arrivals'
            /\ net'.exc = "none"
            /\ IF net'.msg.kind # "bytes"
               THEN queue' = Append(queue, [n |-> net'.n, data |-> net'.msg])
               ELSE queue' = queue]_vars
    /\ [][Len(queue') > Len(queue) => arrivals' # arrivals]_vars
    /\ [](\A i, j \in 1..Len(queue) : i # j => queue[i].n # queue[j].n)

\* the third message does not decode and leaves the two waiting as they were
C12_Witness ==
    /\ net.cb = "message"
    /\ net.n = 3
    /\ net.msg.kind = "bytes"
    /\ Ns(queue) = <<1, 2>>

\* C13: a connect callback with the success code subscribes once; one with a
\* failure code subscribes not at all and has the driver call neither connect
\* nor loop_start; nothing else subscribes, so there is no subscription
\* before the first successful connect callback.
C13_SubscribeOnSuccess ==
    /\ [][connects' # connects =>
            /\ net'.cb = "connect"
            /\ connects' = connects + 1
            /\ IF net'.rc = 0
               THEN subscribes' = subscribes + 1
               ELSE subscribes' = subscribes
            /\ connectCalls' = connectCalls
            /\ loopStarts' = loopStarts]_vars
    /\ [][subscribes' # subscribes => (connects' # connects /\ net'.rc = 0)]_vars
    /\ [](subscribes <= connects)

\* a reconnect: the second successful connect callback has subscribed again
C13_Witness ==
    /\ net.cb = "connect"
    /\ net.rc = 0
    /\ connects = 2
    /\ subscribes = 2

(* values of numeric texts, read digit by digit from the left *)

RECURSIVE Pow10(_)
Pow10(k) == IF k = 0 THEN 1 ELSE 10 * Pow10(k - 1)

IsPoint(c) == c = "."

\* the text without its sign
Unsign(s) == IF s # <<>> /\ s[1] = "-" THEN Tail(s) ELSE s

\* a text of the form [-]digits[.digits] with at least one digit
NumericText(s) ==
    /\ Len(SelectSeq(Unsign(s), IsPoint)) <= 1
    /\ Len(SelectSeq(Unsign(s), IsDigit)) >= 1
    /\ \A i \in 1..Len(Unsign(s)) : IsDigit(Unsign(s)[i]) \/ IsPoint(Unsign(s)[i])

\* the number of digits behind the point
Decimals(s) ==
    IF SelectSeq(s, IsPoint) = <<>> THEN 0
    ELSE Len(s) - (CHOOSE i \in 1..Len(s) : IsPoint(s[i]))

RECURSIVE Horner(_, _)
\* the integer written by the digits ds, acc being the value of those read
Horner(ds, acc) ==
    IF ds = <<>> THEN acc ELSE Horner(Tail(ds), 10 * acc + DigitVal(Head(ds)))

\* the float x = m / 10^e is the number the numeric text s writes
ValueIs(x, s) ==
    x.m * Pow10(Decimals(s)) =
        (IF s[1] = "-" THEN -1 ELSE 1) * Horner(SelectSeq(Unsign(s), IsDigit), 0)
            * Pow10(x.e)

\* the message carries every source key of its mapping, each a numeric string
AllNumericStrings(data) ==
    /\ data.kind = "object"
    /\ SourceKeys \subseteq DOMAIN data.obj
    /\ \A k \in SourceKeys : data.obj[k].t = "str" /\ NumericText(data.obj[k].v)

\* C14: a record returned for a message that carries every source key of its
\* mapping as a numeric string holds, besides dateTime and usUnits, exactly
\* the output fields of the mapping, each with the number its own source key
\* writes.
C14_MappingResult ==
    (Called /\ last.some /\ AllNumericStrings(last.data))
    => /\ DOMAIN last.val = {"dateTime", "usUnits"} \cup {FieldOf(k) : k \in SourceKeys}
       /\ \A k \in SourceKeys : ValueIs(last.val[FieldOf(k)], last.data.obj[k].v)

\* the record of the message that writes -0.50 and 07
C14_Witness ==
    /\ Called
    /\ last.some
    /\ AllNumericStrings(last.data)
    /\ last.data.obj["temperature_F"].v = <<"-", "0", ".", "5", "0">>
    /\ last.val["temp"] = [m |-> -5, e |-> 1]
    /\ last.val["hum"] = [m |-> 7, e |-> 0]

\* C15: the set the prune step leaves is left as it is by the prune step
\* applied again at the same wall-clock second, whatever timestamp the
\* message of either call declares.
C15_PruneIdempotent ==
    /\ [][(last'.n = last.n + 1 /\ last.n > 0 /\ last.at = now)
            => last_seen_packets' = last_seen_packets]_vars
    /\ [](\A t1, t2 \in {StampOf(PacketId(data)) : data \in Remembered} :
            Prune(Prune(last_seen_packets, packet_timestamps, t1, now - Window),
                  packet_timestamps, t2, now - Window)
            = Prune(last_seen_packets, packet_timestamps, t1, now - Window))

\* the step applied twice in the same second, the first time evicting two
\* identities and keeping one
C15_Witness ==
    /\ last.n = 2
    /\ last.at = now
    /\ Cardinality(last_seen_packets) = 1
    /\ Cardinality({pkt \in inserted : StampOf(pkt) <= now - Window}) >= 2

\* C16: a call of _parse_data that returns no record leaves no identity in
\* last_seen_packets that was not there before the call.
C16_GrowsOnlyOnSuccess ==
    [][(last'.n # last.n /\ ~last'.some)
        => last_seen_packets' \subseteq last_seen_packets]_vars

\* C17: right after a call of _parse_data that reached its prune step, every
\* identity kept in last_seen_packets or in packet_timestamps, the one of the
\* call's own message aside, has a recorded time later than now - 10.
C17_MemoryBoundedByWindow ==
    (Called /\ last.at = now /\ ValidHeader(last.data))
    => \A pkt \in (last_seen_packets \cup DOMAIN packet_timestamps)
                    \ {PacketId(last.data)} :
          DictGet(packet_timestamps, pkt, now) > now - Window

\* C18: with the host pulling, a message in the queue is passed to
\* _parse_data unless the stop event is set; each call takes the message at
\* the head of the queue and removes it, nothing else removes a message, and
\* the arrival numbers of the messages passed grow, so none is passed twice
\* and none is passed over.
C18_ConsumedOnce ==
    /\ \A n \in 1..MaxMsgs :
          (\E i \in 1..Len(queue) : queue[i].n = n) ~> (last.n = n \/ stop_event)
    /\ [][last'.n # last.n =>
            /\ queue # <<>>
            /\ last'.n = Head(queue).n
            /\ last'.data = Head(queue).data
            /\ last'.n > last.n
            /\ queue' = Tail(queue)]_vars
    /\ [][Len(queue') < Len(queue) => last'.n = Head(queue).n]_vars
    /\ [](\A i \in 1..Len(queue) : queue[i].n > last.n)

\* three messages arrived and queued, each passed to _parse_data, the queue
\* empty again and the driver never stopped
C18_Witness ==
    /\ ~stop_event
    /\ arrivals = 3
    /\ last.n = 3
    /\ queue = <<>>
    /\ last.log = <<"debug: duplicate packet">>

\* C19: a connect or disconnect callback leaves the queue, the duplicate
\* memory, the stop event and the consumer as they are; a message callback
\* changes of these the queue only, and only by appending; the duplicate
\* memory changes only in the consumer's call of _parse_data.
C19_CallbacksTouchQueueOnly ==
    /\ [][(connects' # connects \/ arrivals' # arrivals \/ net' # net) =>
            /\ UNCHANGED <<last_seen_packets, packet_timestamps, stop_event, gen,
                           yielded, last, now>>
            /\ IF arrivals' # arrivals
               THEN queue' = queue \/ (Len(queue') = Len(queue) + 1
                                        /\ SubSeq(queue', 1, Len(queue)) = queue)
               ELSE queue' = queue]_vars
    /\ [][(last_seen_packets' # last_seen_packets
             \/ packet_timestamps' # packet_timestamps)
           => (gen = "get" /\ last'.n # last.n /\ net' = net)]_vars

\* a disconnect callback run with a message waiting and an identity
\* remembered
C19_Witness ==
    /\ net.cb = "disconnect"
    /\ queue # <<>>
    /\ last_seen_packets # {}
    /\ ~stop_event

\* C20: a message with a mapped model and a timestamp in the format is
\* rejected as a duplicate exactly when an earlier call inserted its
\* identity and its declared timestamp is later than now - 10; the time
\* recorded for an identity is its declared timestamp; and every identity in
\* last_seen_packets has a recorded time.
C20_DuplicateRule ==
    /\ (Called /\ ValidHeader(last.data))
       => ((~last.some /\ last.log = <<"debug: duplicate packet">>)
           <=> (last.known /\ StampOf(PacketId(last.data)) > last.at - Window))
    /\ \A pkt \in DOMAIN packet_timestamps : packet_timestamps[pkt] = StampOf(pkt)
    /\ last_seen_packets \subseteq DOMAIN packet_timestamps

\* an identity inserted ten seconds before, with the declared timestamp at
\* the cutoff itself, is accepted again
C20_Witness ==
    /\ Called
    /\ ValidHeader(last.data)
    /\ last.known
    /\ last.some
    /\ StampOf(PacketId(last.data)) = last.at - Window

====
